---- MODULE Spec2Model ----
(***************************************************************************)
(* Model of the package cataloging orchestration of syft:                  *)
(*   Catalog and packageFileOwnershipRelationships (package packages).     *)
(* One run of Catalog is a state machine: one step per iteration of the    *)
(* cataloger loop, one step for the call of pkg.NewRelationships and one   *)
(* step for each of the two returns.                                       *)
(* The goroutine of powerUserExecWorker (package cmd) is a second state    *)
(* machine, with the consumer of its error channel.                        *)
(***************************************************************************)
EXTENDS Integers, Sequences, FiniteSets, Bags, TLC

\* ------------------------------------------------------------------ bounds
MaxCatalogers == 2      \* catalogers passed to one run of Catalog
MaxPackages == 2        \* packages returned by all catalogers of a run together
MaxRelationships == 1   \* relationships reported by all catalogers of a run together
MaxLocations == 2       \* locations the resolver returns for one path
MaxTasks == 2           \* tasks powerUserTasks() returns

\* ------------------------------------------------------------------ values
Paths == {"/a", "/b"}

Layers == <<"layer1", "layer2", "layer3">>

\* source.Location: the coordinates of a file in one layer of the source
Location(path, k) ==
    [Coordinates |-> [RealPath |-> path, FileSystemID |-> Layers[k]],
     VirtualPath |-> path]

\* the outcomes of resolver.FilesByPath(path): an error, or zero or more locations
ResolverOutcomes(path) ==
    {[err |-> TRUE, locations |-> <<>>]} \cup
    {[err |-> FALSE, locations |-> [k \in 1..n |-> Location(path, k)]] : n \in 0..MaxLocations}

Resolvers == {r \in [Paths -> UNION {ResolverOutcomes(p) : p \in Paths}] :
                 \A p \in Paths : r[p] \in ResolverOutcomes(p)}

\* a package whose metadata implements pkg.FileOwner
PkgOwner ==
    [Name |-> "libc", Version |-> "1.0", Type |-> "deb",
     Metadata |-> [FileOwner |-> TRUE, OwnedFiles |-> <<"/a", "/b">>],
     CPEs |-> {}, PURL |-> <<>>]

\* a package whose metadata does not implement pkg.FileOwner
PkgPlain ==
    [Name |-> "left-pad", Version |-> "2.0", Type |-> "npm",
     Metadata |-> [FileOwner |-> FALSE, OwnedFiles |-> <<>>],
     CPEs |-> {}, PURL |-> <<>>]

Packages == {PkgOwner, PkgPlain}

\* a relationship a cataloger reports by itself
DepEdge == [From |-> PkgPlain, To |-> PkgOwner, Type |-> "dependency-of"]

ReportedRelationships == {DepEdge}

CatalogerNames == <<"c1", "c2", "c3", "c4">>

\* the error value the cataloger at each position returns when it fails
CatalogerErrors == <<"e1", "e2", "e3", "e4">>

SeqsUpTo(S, n) == UNION {[1..k -> S] : k \in 0..n}

\* what c.Catalog(resolver) returns for the cataloger at position k: packages,
\* relationships and an error (<<>> is nil); a failing cataloger may still return
\* packages, and is taken to report no relationships
CatalogerResults(k) ==
    {c \in [Name : {CatalogerNames[k]},
            packages : SeqsUpTo(Packages, MaxPackages),
            relationships : SeqsUpTo(ReportedRelationships, MaxRelationships),
            err : {<<>>, <<CatalogerErrors[k]>>}] :
        c.err # <<>> => c.relationships = <<>>}

RECURSIVE SumLen(_, _, _)
SumLen(cs, field, k) ==
    IF k = 0 THEN 0
    ELSE SumLen(cs, field, k - 1) +
         (IF field = "packages" THEN Len(cs[k].packages) ELSE Len(cs[k].relationships))

CatalogerLists ==
    UNION {{cs \in [1..n -> UNION {CatalogerResults(k) : k \in 1..n}] :
               /\ \A k \in 1..n : cs[k].Name = CatalogerNames[k]
               /\ SumLen(cs, "packages", n) <= MaxPackages
               /\ SumLen(cs, "relationships", n) <= MaxRelationships}
           : n \in 0..MaxCatalogers}

Releases == {"debian"}

VARIABLES
    resolver,            \* the FileResolver given to Catalog
    release,             \* the *linux.Release given to Catalog
    catalogers,          \* the catalogers given to Catalog, with what each returns
    pc,                  \* position of the run: "loop", "check", "done"
    i,                   \* index of the next cataloger of the range loop
    catalog,             \* *pkg.Catalog: <<>> is nil, <<c>> points to the package list c
    allRelationships,    \* []artifact.Relationship
    errs,                \* the multierror: <<>> is nil
    filesProcessed,      \* progress.Manual [N, completed]
    packagesDiscovered,  \* progress.Manual [N, completed]
    ret,                 \* what Catalog returned: [catalog, relationships, err]
    invoked,             \* log: names of the catalogers whose Catalog was called, in order
    owning,              \* log: the calls of packageFileOwnershipRelationships, in order
    synthesized,         \* log: catalogs pkg.NewRelationships was called on, in order
    previous,            \* what an earlier run on the same inputs returned: <<>> or <<ret>>
    \* powerUserExecWorker
    tasksResult,         \* what powerUserTasks() returns: [tasks, err]
    sourceResult,        \* what source.New(userInput) returns: [scheme, err]
    wpc,                 \* position of the worker goroutine
    task,                \* index of the next task of the range loop
    deferred,            \* the deferred calls of the goroutine, the last one on top
    errsChan,            \* the channel errs: [sending, closed]; sending <<e>> is a blocked send
    events               \* log: what the goroutine did, in order

inputs == <<resolver, release, catalogers>>

\* the state of a run of Catalog
run == <<pc, i, catalog, allRelationships, errs, filesProcessed, packagesDiscovered, ret,
         invoked, owning, synthesized>>

earlier == <<previous>>

worker == <<tasksResult, sourceResult, wpc, task, deferred, errsChan, events>>

vars == <<inputs, run, earlier, worker>>

\* ------------------------------------------------------------------ collaborators

\* source.FilePathResolver.FilesByPath
FilesByPath(res, path) == res[path]

\* cpe.Generate: a CPE set computed from the package's fields
Generate(p) == {<<"cpe:2.3:a", p.Name, p.Name, p.Version>>}

\* pkg.URL: a package URL computed from the package's fields and the release
URL(p, rel) == <<"pkg", p.Type, rel, p.Name, p.Version>>

\* Package.ID: the identity of a package
ID(p) == <<p.Name, p.Version, p.Type>>

\* Catalog.Add: a package whose identity is present merges into the first-seen entry
Add(c, p) ==
    IF \E k \in 1..Len(c) : ID(c[k]) = ID(p) THEN c ELSE Append(c, p)

\* pkg.NewRelationships: edges between the packages of the finished catalog
NewRelationships(c) ==
    LET n == Len(c)
        pairs == [t \in 1..(n * n) |-> <<((t - 1) \div n) + 1, ((t - 1) % n) + 1>>]
        linked == SelectSeq(pairs, LAMBDA pr : pr[1] # pr[2] /\ c[pr[1]].Metadata.FileOwner)
    IN [t \in 1..Len(linked) |->
           [From |-> c[linked[t][1]], To |-> c[linked[t][2]],
            Type |-> "ownership-by-file-overlap"]]

\* multierror.Append(errs, err)
MultierrorAppend(es, err) == Append(es, err)

\* ------------------------------------------------------------------ packageFileOwnershipRelationships

\* variant of locationsLoop: only the first location gets a relationship
locationsLoopFirstOnly(p, relationships, locations) ==
    Append(relationships,
           [From |-> p, To |-> locations[1].Coordinates, Type |-> "contains"])

\* lines 96-102: one Contains relationship per location
locationsLoop(p, relationships, locations) ==
    relationships \o
    [j \in 1..Len(locations) |->
        [From |-> p, To |-> locations[j].Coordinates, Type |-> "contains"]]

\* lines 83-103: the loop over fileOwner.OwnedFiles(), from the k-th path on;
\* lookups lists the paths given to resolver.FilesByPath so far
RECURSIVE ownedFilesLoop(_, _, _, _, _)
ownedFilesLoop(p, res, k, relationships, lookups) ==
    LET files == p.Metadata.OwnedFiles IN
    IF k > Len(files)
    THEN [relationships |-> relationships, err |-> <<>>, lookups |-> lookups]
    ELSE LET found == FilesByPath(res, files[k])
             looked == Append(lookups, files[k])
         IN IF found.err
            THEN [relationships |-> <<>>,
                  err |-> <<"unable to find path for path", files[k]>>,
                  lookups |-> looked]
            ELSE IF Len(found.locations) = 0
            THEN ownedFilesLoop(p, res, k + 1, relationships, looked)
            ELSE ownedFilesLoop(p, res, k + 1,
                                locationsLoop(p, relationships, found.locations), looked)

\* variant of packageFileOwnershipRelationships: metadata that is no FileOwner is an error
packageFileOwnershipRelationshipsStrict(p, res) ==
    IF ~p.Metadata.FileOwner
    THEN [relationships |-> <<>>, err |-> <<"no file owner">>, lookups |-> <<>>]
    ELSE ownedFilesLoop(p, res, 1, <<>>, <<>>)

\* lines 75-106: the result [relationships, err] (<<>> is nil), with the lookups made
packageFileOwnershipRelationships(p, res) ==
    IF ~p.Metadata.FileOwner
    THEN [relationships |-> <<>>, err |-> <<>>, lookups |-> <<>>]
    ELSE ownedFilesLoop(p, res, 1, <<>>, <<>>)

\* ------------------------------------------------------------------ Catalog

\* variant of withIdentifiers: the version is rewritten together with the identifiers
withIdentifiersAndVersion(p, rel) ==
    LET q == [p EXCEPT !.CPEs = Generate(p), !.Version = "v" \o p.Version]
    IN [q EXCEPT !.PURL = URL(q, rel)]

\* lines 42-46: the identifiers attached to a package
withIdentifiers(p, rel) ==
    LET q == [p EXCEPT !.CPEs = Generate(p)] IN [q EXCEPT !.PURL = URL(q, rel)]

\* variant of appendOwning: relationships already in the list are not appended again
appendOwningDeduplicated(rels, owningRelationships) ==
    IF owningRelationships.err # <<>> THEN rels
    ELSE rels \o SelectSeq(owningRelationships.relationships,
                           LAMBDA r : \A k \in 1..Len(rels) : rels[k] # r)

\* lines 50-54: a failed derivation is logged, a successful one is appended
appendOwning(rels, owningRelationships) ==
    IF owningRelationships.err # <<>> THEN rels ELSE rels \o owningRelationships.relationships

\* variant of packagesLoop: a package whose ownership derivation failed is skipped
RECURSIVE packagesLoopSkipFailed(_, _, _, _, _)
packagesLoopSkipFailed(st, packages, k, res, rel) ==
    IF k > Len(packages) THEN st
    ELSE LET p == withIdentifiers(packages[k], rel)
             owningRelationships == packageFileOwnershipRelationships(p, res)
         IN packagesLoopSkipFailed(
                [catalog |-> IF owningRelationships.err # <<>> THEN st.catalog
                             ELSE Add(st.catalog, p),
                 allRelationships |-> appendOwning(st.allRelationships, owningRelationships),
                 owning |-> Append(st.owning, [p |-> p, result |-> owningRelationships])],
                packages, k + 1, res, rel)

\* lines 41-58: the loop over the packages of one cataloger, from the k-th on;
\* st is [catalog, allRelationships, owning]
RECURSIVE packagesLoop(_, _, _, _, _)
packagesLoop(st, packages, k, res, rel) ==
    IF k > Len(packages) THEN st
    ELSE LET p == withIdentifiers(packages[k], rel)
             owningRelationships == packageFileOwnershipRelationships(p, res)
         IN packagesLoop(
                [catalog |-> Add(st.catalog, p),
                 allRelationships |-> appendOwning(st.allRelationships, owningRelationships),
                 owning |-> Append(st.owning, [p |-> p, result |-> owningRelationships])],
                packages, k + 1, res, rel)

\* no worker goroutine is running
workerIdle ==
    /\ tasksResult = [tasks |-> <<>>, err |-> <<>>]
    /\ sourceResult = [scheme |-> "ImageScheme", err |-> <<>>]
    /\ wpc = "idle"
    /\ task = 1
    /\ deferred = <<>>
    /\ errsChan = [sending |-> <<>>, closed |-> FALSE]
    /\ events = <<>>

Init ==
    /\ resolver \in Resolvers
    /\ release \in Releases
    /\ catalogers \in CatalogerLists
    /\ pc = "loop"
    /\ i = 1
    /\ catalog = <<<<>>>>
    /\ allRelationships = <<>>
    /\ errs = <<>>
    /\ filesProcessed = [N |-> 0, completed |-> FALSE]
    /\ packagesDiscovered = [N |-> 0, completed |-> FALSE]
    /\ ret = [catalog |-> <<>>, relationships |-> <<>>, err |-> <<>>]
    /\ invoked = <<>>
    /\ owning = <<>>
    /\ synthesized = <<>>
    /\ previous = <<>>
    /\ workerIdle

\* variant of catalogerFailed: the packages of a failing cataloger are counted
catalogerFailedCounted(c) ==
    /\ errs' = MultierrorAppend(errs, c.err[1])
    /\ packagesDiscovered' = [packagesDiscovered EXCEPT !.N = @ + Len(c.packages)]
    /\ i' = i + 1
    /\ UNCHANGED <<catalog, allRelationships, owning>>

\* variant of catalogerFailed: the first failing cataloger ends the loop
catalogerFailedBreak(c) ==
    /\ errs' = MultierrorAppend(errs, c.err[1])
    /\ i' = Len(catalogers) + 1
    /\ UNCHANGED <<catalog, allRelationships, packagesDiscovered, owning>>

\* lines 31-34: the cataloger failed; the loop continues with the next cataloger
catalogerFailed(c) ==
    /\ errs' = MultierrorAppend(errs, c.err[1])
    /\ i' = i + 1
    /\ UNCHANGED <<catalog, allRelationships, packagesDiscovered, owning>>

\* variant of catalogerSucceeded: the reported relationships are appended before the
\* packages are processed
catalogerSucceededReportedFirst(c) ==
    LET st == packagesLoop([catalog |-> catalog[1],
                            allRelationships |-> allRelationships \o c.relationships,
                            owning |-> owning],
                           c.packages, 1, resolver, release)
    IN /\ packagesDiscovered' = [packagesDiscovered EXCEPT !.N = @ + Len(c.packages)]
       /\ catalog' = <<st.catalog>>
       /\ owning' = st.owning
       /\ allRelationships' = st.allRelationships
       /\ i' = i + 1
       /\ UNCHANGED errs

\* variant of catalogerSucceeded: every cataloger fills a catalog of its own
catalogerSucceededOwnCatalog(c) ==
    LET st == packagesLoop([catalog |-> <<>>, allRelationships |-> allRelationships,
                            owning |-> owning],
                           c.packages, 1, resolver, release)
    IN /\ packagesDiscovered' = [packagesDiscovered EXCEPT !.N = @ + Len(c.packages)]
       /\ catalog' = <<st.catalog>>
       /\ owning' = st.owning
       /\ allRelationships' = st.allRelationships \o c.relationships
       /\ i' = i + 1
       /\ UNCHANGED errs

\* lines 36-60: the cataloger succeeded
catalogerSucceeded(c) ==
    LET st == packagesLoop([catalog |-> catalog[1], allRelationships |-> allRelationships,
                            owning |-> owning],
                           c.packages, 1, resolver, release)
    IN /\ packagesDiscovered' = [packagesDiscovered EXCEPT !.N = @ + Len(c.packages)]
       /\ catalog' = <<st.catalog>>
       /\ owning' = st.owning
       /\ allRelationships' = st.allRelationships \o c.relationships
       /\ i' = i + 1
       /\ UNCHANGED errs

\* lines 27-61: one iteration of the loop over the catalogers
CatalogerStep ==
    /\ pc = "loop"
    /\ i <= Len(catalogers)
    /\ LET c == catalogers[i] IN
          /\ invoked' = Append(invoked, c.Name)
          /\ IF c.err # <<>> THEN catalogerFailed(c) ELSE catalogerSucceeded(c)
    /\ UNCHANGED <<inputs, earlier, worker, pc, filesProcessed, ret, synthesized>>

\* variant of SynthesizeStep: pkg.NewRelationships is called only when no cataloger failed
SynthesizeStepOnSuccess ==
    /\ pc = "loop"
    /\ i > Len(catalogers)
    /\ IF errs = <<>>
       THEN /\ allRelationships' = allRelationships \o NewRelationships(catalog[1])
            /\ synthesized' = Append(synthesized, catalog[1])
       ELSE UNCHANGED <<allRelationships, synthesized>>
    /\ pc' = "check"
    /\ UNCHANGED <<inputs, earlier, worker, i, catalog, errs, filesProcessed, packagesDiscovered, ret,
                   invoked, owning>>

\* line 63: after the loop, the relationships of the catalog are appended
SynthesizeStep ==
    /\ pc = "loop"
    /\ i > Len(catalogers)
    /\ allRelationships' = allRelationships \o NewRelationships(catalog[1])
    /\ synthesized' = Append(synthesized, catalog[1])
    /\ pc' = "check"
    /\ UNCHANGED <<inputs, earlier, worker, i, catalog, errs, filesProcessed, packagesDiscovered, ret,
                   invoked, owning>>

\* variant of ReturnErrors: the packages-discovered counter is reset on failure
ReturnErrorsRollback ==
    /\ pc = "check"
    /\ errs # <<>>
    /\ packagesDiscovered' = [packagesDiscovered EXCEPT !.N = 0]
    /\ ret' = [catalog |-> <<>>, relationships |-> <<>>, err |-> errs]
    /\ pc' = "done"
    /\ UNCHANGED <<inputs, earlier, worker, i, catalog, allRelationships, errs, filesProcessed,
                   invoked, owning, synthesized>>

\* variant of ReturnErrors: the progress streams are completed before the error check
ReturnErrorsCompleted ==
    /\ pc = "check"
    /\ errs # <<>>
    /\ filesProcessed' = [filesProcessed EXCEPT !.completed = TRUE]
    /\ packagesDiscovered' = [packagesDiscovered EXCEPT !.completed = TRUE]
    /\ ret' = [catalog |-> <<>>, relationships |-> <<>>, err |-> errs]
    /\ pc' = "done"
    /\ UNCHANGED <<inputs, earlier, worker, i, catalog, allRelationships, errs, invoked, owning, synthesized>>

\* variant of ReturnErrors: the catalog and relationships built so far are returned
ReturnErrorsPartial ==
    /\ pc = "check"
    /\ errs # <<>>
    /\ ret' = [catalog |-> catalog, relationships |-> allRelationships, err |-> errs]
    /\ pc' = "done"
    /\ UNCHANGED <<inputs, earlier, worker, i, catalog, allRelationships, errs, filesProcessed,
                   packagesDiscovered, invoked, owning, synthesized>>

\* lines 65-67: some cataloger failed
ReturnErrors ==
    /\ pc = "check"
    /\ errs # <<>>
    /\ ret' = [catalog |-> <<>>, relationships |-> <<>>, err |-> errs]
    /\ pc' = "done"
    /\ UNCHANGED <<inputs, earlier, worker, i, catalog, allRelationships, errs, filesProcessed,
                   packagesDiscovered, invoked, owning, synthesized>>

\* lines 69-72: no cataloger failed
ReturnCatalog ==
    /\ pc = "check"
    /\ errs = <<>>
    /\ filesProcessed' = [filesProcessed EXCEPT !.completed = TRUE]
    /\ packagesDiscovered' = [packagesDiscovered EXCEPT !.completed = TRUE]
    /\ ret' = [catalog |-> catalog, relationships |-> allRelationships, err |-> <<>>]
    /\ pc' = "done"
    /\ UNCHANGED <<inputs, earlier, worker, i, catalog, allRelationships, errs, invoked, owning, synthesized>>

Next == CatalogerStep \/ SynthesizeStep \/ ReturnErrors \/ ReturnCatalog

Spec == Init /\ [][Next]_vars

\* variant of Rerun: the relationship list lives on between the runs
RerunKeepRelationships ==
    /\ pc = "done"
    /\ previous = <<>>
    /\ previous' = <<ret>>
    /\ pc' = "loop"
    /\ i' = 1
    /\ catalog' = <<<<>>>>
    /\ errs' = <<>>
    /\ filesProcessed' = [N |-> 0, completed |-> FALSE]
    /\ packagesDiscovered' = [N |-> 0, completed |-> FALSE]
    /\ ret' = [catalog |-> <<>>, relationships |-> <<>>, err |-> <<>>]
    /\ invoked' = <<>>
    /\ owning' = <<>>
    /\ synthesized' = <<>>
    /\ UNCHANGED <<inputs, worker, allRelationships>>

\* lines 19-26: Catalog is called once more with the same resolver, release and
\* catalogers; the catalog, the relationship list, the errors and the monitors are new
Rerun ==
    /\ pc = "done"
    /\ previous = <<>>
    /\ previous' = <<ret>>
    /\ pc' = "loop"
    /\ i' = 1
    /\ catalog' = <<<<>>>>
    /\ allRelationships' = <<>>
    /\ errs' = <<>>
    /\ filesProcessed' = [N |-> 0, completed |-> FALSE]
    /\ packagesDiscovered' = [N |-> 0, completed |-> FALSE]
    /\ ret' = [catalog |-> <<>>, relationships |-> <<>>, err |-> <<>>]
    /\ invoked' = <<>>
    /\ owning' = <<>>
    /\ synthesized' = <<>>
    /\ UNCHANGED <<inputs, worker>>

NextRerun == Next \/ Rerun

\* two runs of Catalog, one after the other, on the same inputs
SpecRerun == Init /\ [][NextRerun]_vars

\* ------------------------------------------------------------------ powerUserExecWorker

TaskNames == <<"task1", "task2", "task3">>

\* the error the task at each position returns when it fails
TaskErrors == <<"eTask1", "eTask2", "eTask3">>

\* what powerUserTasks() returns: an error, or tasks, each of them [err] (<<>> is nil)
TasksResults ==
    {[tasks |-> <<>>, err |-> <<"eTasks">>]} \cup
    {[tasks |-> ts, err |-> <<>>] :
        ts \in UNION {{t \in [1..n -> {<<>>} \cup {<<TaskErrors[k]>> : k \in 1..n}] :
                          \A k \in 1..n : t[k] \in {<<>>, <<TaskErrors[k]>>}}
                      : n \in 0..MaxTasks}}

\* source.Scheme
Schemes == {"ImageScheme", "DirectoryScheme", "FileScheme"}

\* what source.New(userInput) returns: an error, or a source with a scheme
SourceResults ==
    {[scheme |-> "UnknownScheme", err |-> <<"eSource">>]} \cup
    [scheme : Schemes, err : {<<>>}]

\* no run of Catalog is going on
catalogIdle ==
    /\ resolver = [path \in Paths |-> [err |-> FALSE, locations |-> <<>>]]
    /\ release = "debian"
    /\ catalogers = <<>>
    /\ pc = "idle"
    /\ i = 1
    /\ catalog = <<>>
    /\ allRelationships = <<>>
    /\ errs = <<>>
    /\ filesProcessed = [N |-> 0, completed |-> FALSE]
    /\ packagesDiscovered = [N |-> 0, completed |-> FALSE]
    /\ ret = [catalog |-> <<>>, relationships |-> <<>>, err |-> <<>>]
    /\ invoked = <<>>
    /\ owning = <<>>
    /\ synthesized = <<>>
    /\ previous = <<>>

\* lines 70-72: the channel is made and the goroutine started
WorkerInit ==
    /\ catalogIdle
    /\ tasksResult \in TasksResults
    /\ sourceResult \in SourceResults
    /\ wpc = "start"
    /\ task = 1
    /\ deferred = <<>>
    /\ errsChan = [sending |-> <<>>, closed |-> FALSE]
    /\ events = <<>>

\* errs <- err (lines 77, 85, 91, 102): the goroutine blocks until the value is received
send(err) ==
    /\ errsChan' = [errsChan EXCEPT !.sending = <<err>>]
    /\ wpc' = "send"

\* variant of TasksStep: close(errs) is not deferred
TasksStepNoClose ==
    /\ wpc = "start"
    /\ IF tasksResult.err # <<>>
       THEN send(tasksResult.err[1])
       ELSE wpc' = "source" /\ UNCHANGED errsChan
    /\ UNCHANGED <<inputs, run, earlier, tasksResult, sourceResult, task, deferred, events>>

\* lines 73-79: defer close(errs); tasks, err := powerUserTasks()
TasksStep ==
    /\ wpc = "start"
    /\ deferred' = Append(deferred, "close")
    /\ IF tasksResult.err # <<>>
       THEN send(tasksResult.err[1])
       ELSE wpc' = "source" /\ UNCHANGED errsChan
    /\ UNCHANGED <<inputs, run, earlier, tasksResult, sourceResult, task, events>>

\* variant of SourceStep: cleanup is deferred below close(errs)
SourceStepCleanupLast ==
    /\ wpc = "source"
    /\ IF sourceResult.err # <<>>
       THEN send(sourceResult.err[1]) /\ UNCHANGED deferred
       ELSE /\ deferred' = <<"cleanup">> \o deferred
            /\ wpc' = "scheme"
            /\ UNCHANGED errsChan
    /\ UNCHANGED <<inputs, run, earlier, tasksResult, sourceResult, task, events>>

\* lines 81-88: src, cleanup, err := source.New(userInput); defer cleanup()
SourceStep ==
    /\ wpc = "source"
    /\ IF sourceResult.err # <<>>
       THEN send(sourceResult.err[1]) /\ UNCHANGED deferred
       ELSE /\ deferred' = Append(deferred, "cleanup")
            /\ wpc' = "scheme"
            /\ UNCHANGED errsChan
    /\ UNCHANGED <<inputs, run, earlier, tasksResult, sourceResult, task, events>>

\* variant of SchemeStep: every scheme is accepted
SchemeStepAnyScheme ==
    /\ wpc = "scheme"
    /\ wpc' = "tasks"
    /\ UNCHANGED <<inputs, run, earlier, tasksResult, sourceResult, task, deferred,
                   errsChan, events>>

\* lines 90-98: only the image scheme is allowed
SchemeStep ==
    /\ wpc = "scheme"
    /\ IF sourceResult.scheme # "ImageScheme"
       THEN send("eScheme")
       ELSE wpc' = "tasks" /\ UNCHANGED errsChan
    /\ UNCHANGED <<inputs, run, earlier, tasksResult, sourceResult, task, deferred, events>>

\* variant of TaskStep: the result of every succeeded task is published
TaskStepPublishEarly ==
    /\ wpc = "tasks"
    /\ task <= Len(tasksResult.tasks)
    /\ IF tasksResult.tasks[task] # <<>>
       THEN /\ events' = Append(events, <<"task", TaskNames[task]>>)
            /\ send(tasksResult.tasks[task][1])
            /\ UNCHANGED task
       ELSE /\ events' = events \o <<<<"task", TaskNames[task]>>,
                                      <<"publish", "PresenterReady">>>>
            /\ task' = task + 1
            /\ UNCHANGED <<wpc, errsChan>>
    /\ UNCHANGED <<inputs, run, earlier, tasksResult, sourceResult, deferred>>

\* variant of TaskStep: a failing task is skipped and the loop goes on
TaskStepContinue ==
    /\ wpc = "tasks"
    /\ task <= Len(tasksResult.tasks)
    /\ events' = Append(events, <<"task", TaskNames[task]>>)
    /\ task' = task + 1
    /\ UNCHANGED <<inputs, run, earlier, tasksResult, sourceResult, deferred, wpc, errsChan>>

\* lines 100-105: one iteration of the loop over the tasks
TaskStep ==
    /\ wpc = "tasks"
    /\ task <= Len(tasksResult.tasks)
    /\ events' = Append(events, <<"task", TaskNames[task]>>)
    /\ IF tasksResult.tasks[task] # <<>>
       THEN send(tasksResult.tasks[task][1]) /\ UNCHANGED task
       ELSE task' = task + 1 /\ UNCHANGED <<wpc, errsChan>>
    /\ UNCHANGED <<inputs, run, earlier, tasksResult, sourceResult, deferred>>

\* lines 107-111: after the loop, the PresenterReady event is published
PublishStep ==
    /\ wpc = "tasks"
    /\ task > Len(tasksResult.tasks)
    /\ events' = Append(events, <<"publish", "PresenterReady">>)
    /\ wpc' = "return"
    /\ UNCHANGED <<inputs, run, earlier, tasksResult, sourceResult, task, deferred, errsChan>>

\* lines 64-68: the consumer of the channel receives the value of the blocked send;
\* the goroutine goes on to its return (lines 78, 86, 92, 103)
Receive ==
    /\ wpc = "send"
    /\ errsChan.sending # <<>>
    /\ events' = Append(events, <<"send", errsChan.sending[1]>>)
    /\ errsChan' = [errsChan EXCEPT !.sending = <<>>]
    /\ wpc' = "return"
    /\ UNCHANGED <<inputs, run, earlier, tasksResult, sourceResult, task, deferred>>

\* lines 73, 88: at the return the deferred calls run, the last deferred first
DeferredStep ==
    /\ wpc = "return"
    /\ IF deferred = <<>>
       THEN UNCHANGED <<deferred, errsChan, events>>
       ELSE /\ deferred' = SubSeq(deferred, 1, Len(deferred) - 1)
            /\ IF deferred[Len(deferred)] = "close"
               THEN /\ errsChan' = [errsChan EXCEPT !.closed = TRUE]
                    /\ events' = Append(events, <<"close", "errs">>)
               ELSE /\ events' = Append(events, <<"cleanup", "src">>)
                    /\ UNCHANGED errsChan
    /\ wpc' = IF Len(deferred) <= 1 THEN "exit" ELSE "return"
    /\ UNCHANGED <<inputs, run, earlier, tasksResult, sourceResult, task>>

\* the steps of the goroutine itself
WorkerStep ==
    TasksStep \/ SourceStep \/ SchemeStep \/ TaskStep \/ PublishStep \/ DeferredStep

WorkerNext == WorkerStep \/ Receive

SpecWorker == WorkerInit /\ [][WorkerNext]_vars

\* the goroutine is scheduled whenever it can run (every task returns), and the
\* consumer of the channel keeps receiving
SpecWorkerFair ==
    WorkerInit /\ [][WorkerNext]_vars /\ WF_vars(WorkerStep) /\ WF_vars(Receive)

\* ------------------------------------------------------------------ properties

Range(s) == {s[k] : k \in 1..Len(s)}

Count(s, x) == Cardinality({k \in 1..Len(s) : s[k] = x})

RECURSIVE Sum(_, _)
Sum(f, S) ==
    IF S = {} THEN 0
    ELSE LET x == CHOOSE y \in S : TRUE IN f[x] + Sum(f, S \ {x})

Returned == pc = "done"

Failed(k) == catalogers[k].err # <<>>

AnyFailed == \E k \in 1..Len(catalogers) : Failed(k)

\* the packages returned by the catalogers of the run
ReturnedPackages ==
    UNION {Range(catalogers[k].packages) : k \in 1..Len(catalogers)}

\* C1: when at least one cataloger invocation returned an error, Catalog returns a
\* nil catalog, a nil relationship list and a non-nil error, whatever the other
\* catalogers returned and wherever the failing cataloger sits in the list.
C1_FailureReturnsNothing ==
    (Returned /\ AnyFailed) =>
        /\ ret.catalog = <<>>
        /\ ret.relationships = <<>>
        /\ ret.err # <<>>

\* a failing first cataloger, a later one that succeeded and filled the catalog
C1_Witness ==
    /\ Returned
    /\ Len(catalogers) = 2
    /\ Failed(1) /\ ~Failed(2)
    /\ catalog[1] # <<>> /\ allRelationships # <<>>
    /\ ret.catalog = <<>> /\ ret.relationships = <<>> /\ ret.err # <<>>

\* C2: every cataloger of the list is invoked exactly once, in list order (the
\* invocations so far are the first i-1 catalogers of the list), and a failure does
\* not stop the loop: once the loop is left, all of them have been invoked.
C2_EachCatalogerInvokedOnceInOrder ==
    /\ i - 1 <= Len(catalogers)
    /\ invoked = [k \in 1..(i - 1) |-> catalogers[k].Name]
    /\ pc # "loop" => invoked = [k \in 1..Len(catalogers) |-> catalogers[k].Name]

\* the first cataloger failed and the second was invoked all the same
C2_Witness ==
    /\ Returned
    /\ Len(catalogers) = 2
    /\ Failed(1)
    /\ invoked = <<"c1", "c2">>

\* C3: in a run without a failing cataloger the returned catalog holds exactly the
\* identities of the packages the catalogers returned, each identity once.
C3_CatalogIsDeduplicatedUnion ==
    (Returned /\ ~AnyFailed) =>
        /\ ret.catalog # <<>>
        /\ LET c == ret.catalog[1] IN
              /\ {ID(c[k]) : k \in 1..Len(c)} = {ID(p) : p \in ReturnedPackages}
              /\ \A k, j \in 1..Len(c) : ID(c[k]) = ID(c[j]) => k = j

\* two catalogers returned a package of the same identity; the catalog holds it once
C3_Witness ==
    /\ Returned /\ ~AnyFailed
    /\ Len(catalogers) = 2
    /\ Len(catalogers[1].packages) = 1 /\ Len(catalogers[2].packages) = 1
    /\ ID(catalogers[1].packages[1]) = ID(catalogers[2].packages[1])
    /\ ret.catalog # <<>> /\ Len(ret.catalog[1]) = 1

\* the Contains edges to derive for one discovered package: none when its metadata is
\* no FileOwner or a lookup of one of its paths fails, else one per path and location
DerivedCount(p0, r) ==
    LET p == withIdentifiers(p0, release)
        files == p.Metadata.OwnedFiles
    IN IF ~p.Metadata.FileOwner \/ (\E f \in 1..Len(files) : resolver[files[f]].err)
       THEN 0
       ELSE Sum([f \in 1..Len(files) |->
                    Cardinality({l \in 1..Len(resolver[files[f]].locations) :
                                    r = [From |-> p,
                                         To |-> resolver[files[f]].locations[l].Coordinates,
                                         Type |-> "contains"]})],
                1..Len(files))

\* how often relationship r is to be in the list Catalog returns
ExpectedCount(r) ==
    Sum([k \in 1..Len(catalogers) |->
            Count(catalogers[k].relationships, r) +
            Sum([j \in 1..Len(catalogers[k].packages) |->
                    DerivedCount(catalogers[k].packages[j], r)],
                1..Len(catalogers[k].packages))],
        1..Len(catalogers))
    + Count(NewRelationships(synthesized[1]), r)

ContainsEdges ==
    {[From |-> withIdentifiers(p, release), To |-> Location(path, k).Coordinates,
      Type |-> "contains"] : p \in Packages, path \in Paths, k \in 1..MaxLocations}

\* C4: in a run without a failing cataloger the returned relationship list is, as a
\* multiset, the sum of the relationships the catalogers reported, the Contains edges
\* derived for every discovered package and the edges of pkg.NewRelationships.
C4_RelationshipsAreMultisetSum ==
    (Returned /\ ~AnyFailed) =>
        \A r \in Range(ret.relationships) \cup ReportedRelationships \cup ContainsEdges
                 \cup Range(NewRelationships(synthesized[1])) :
            Count(ret.relationships, r) = ExpectedCount(r)

\* a reported relationship, a derived Contains edge and an edge of NewRelationships
\* are all in the returned list
C4_Witness ==
    /\ Returned /\ ~AnyFailed
    /\ \E r \in Range(ret.relationships) : r.Type = "dependency-of"
    /\ \E r \in Range(ret.relationships) : r.Type = "contains"
    /\ \E r \in Range(ret.relationships) : r.Type = "ownership-by-file-overlap"

\* the lookup of every owned path of package p succeeds on the resolver
AllLookupsSucceed(p) ==
    \A f \in 1..Len(p.Metadata.OwnedFiles) : ~resolver[p.Metadata.OwnedFiles[f]].err

\* C5: a call of packageFileOwnershipRelationships for a package that declares owned
\* paths, on a resolver on which every lookup succeeds, returns no error and exactly
\* one Contains relationship (From the package, To the location's coordinates) for
\* each path and each location the resolver returns for it, and nothing else; a path
\* without locations adds nothing.
C5_OneContainsPerPathAndLocation ==
    \A n \in 1..Len(owning) :
        LET p == owning[n].p
            files == p.Metadata.OwnedFiles
            got == owning[n].result
        IN (p.Metadata.FileOwner /\ AllLookupsSucceed(p)) =>
              /\ got.err = <<>>
              /\ \A f \in 1..Len(files) :
                    \A l \in 1..Len(resolver[files[f]].locations) :
                        Count(got.relationships,
                              [From |-> p,
                               To |-> resolver[files[f]].locations[l].Coordinates,
                               Type |-> "contains"]) = 1
              /\ Len(got.relationships) =
                     Sum([f \in 1..Len(files) |-> Len(resolver[files[f]].locations)],
                         1..Len(files))

\* a call for a package one path of which has two locations and the other none
C5_Witness ==
    \E n \in 1..Len(owning) :
        /\ owning[n].p.Metadata.OwnedFiles = <<"/a", "/b">>
        /\ ~resolver["/a"].err /\ Len(resolver["/a"].locations) = 2
        /\ ~resolver["/b"].err /\ Len(resolver["/b"].locations) = 0
        /\ owning[n].result.err = <<>>
        /\ Len(owning[n].result.relationships) = 2

\* the number of packages the succeeded catalogers among the first n returned
SucceededPackages(n) ==
    Sum([k \in 1..n |-> IF Failed(k) THEN 0 ELSE Len(catalogers[k].packages)], 1..n)

\* C6: a resolver lookup error during the ownership derivation of a package stays with
\* that package: it gets no ownership relationship at all, it is in the catalog, the
\* packages and catalogers after it are processed, and the errors of the run are the
\* errors of the failing catalogers only, so Catalog returns an error if and only if
\* a cataloger failed.
C6_LookupErrorIsContained ==
    /\ \A n \in 1..Len(owning) :
          owning[n].result.err # <<>> =>
              /\ owning[n].result.relationships = <<>>
              /\ \A r \in Range(allRelationships) :
                    ~(r.Type = "contains" /\ r.From = owning[n].p)
              /\ \E k \in 1..Len(catalog[1]) : ID(catalog[1][k]) = ID(owning[n].p)
    /\ Len(owning) = SucceededPackages(i - 1)
    /\ Len(errs) = Cardinality({k \in 1..(i - 1) : Failed(k)})
    /\ Returned =>
          /\ i - 1 = Len(catalogers)
          /\ ret.err # <<>> <=> AnyFailed

\* the second path of a package failed after the first was resolved to a location, a
\* package was processed after it, and Catalog returned the catalog without an error
C6_Witness ==
    /\ Returned /\ ret.err = <<>> /\ ret.catalog # <<>>
    /\ ~resolver["/a"].err /\ Len(resolver["/a"].locations) > 0
    /\ Len(owning) = 2
    /\ owning[1].result.err # <<>>
    /\ owning[1].result.lookups = <<"/a", "/b">>
    /\ owning[1].result.relationships = <<>>
    /\ \E k \in 1..Len(ret.catalog[1]) : ID(ret.catalog[1][k]) = ID(owning[1].p)

\* the relationships pkg.NewRelationships returned are the end of the returned list
SynthesizedIsReturned ==
    LET made == NewRelationships(synthesized[1])
        n == Len(ret.relationships)
    IN /\ Len(made) <= n
       /\ SubSeq(ret.relationships, n - Len(made) + 1, n) = made

\* C7, as stated: pkg.NewRelationships is invoked only after all catalogers have been
\* attempted and only when no cataloger failed, then once over the finished catalog;
\* in a run with a failing cataloger it is never invoked.
C7_SynthesizedOnlyOnSuccess ==
    /\ synthesized # <<>> =>
          /\ errs = <<>>
          /\ Len(invoked) = Len(catalogers)
          /\ Len(synthesized) = 1
          /\ synthesized[1] = catalog[1]
    /\ AnyFailed => synthesized = <<>>

\* C7, amended: pkg.NewRelationships is invoked only after all catalogers have been
\* attempted, and then exactly once over the finished catalog, in every run, also in
\* a run with a failing cataloger; its relationships reach the caller only when no
\* cataloger failed.
C7_SynthesizedOnceAfterLoop ==
    /\ Len(synthesized) <= 1
    /\ synthesized # <<>> =>
          /\ Len(invoked) = Len(catalogers)
          /\ synthesized[1] = catalog[1]
    /\ pc \in {"check", "done"} <=> Len(synthesized) = 1
    /\ (Returned /\ ~AnyFailed) => SynthesizedIsReturned
    /\ (Returned /\ AnyFailed) => ret.relationships = <<>>

\* a run with a failing cataloger in which pkg.NewRelationships was called on a
\* catalog with two packages
C7_Witness ==
    /\ Returned /\ AnyFailed
    /\ Len(synthesized) = 1
    /\ Len(synthesized[1]) = 2
    /\ NewRelationships(synthesized[1]) # <<>>
    /\ ret.relationships = <<>>

\* the number of packages the first n catalogers returned
ReturnedPackagesCount(n) ==
    Sum([k \in 1..n |-> Len(catalogers[k].packages)], 1..n)

\* C8, as stated: after a cataloger was invoked the packages-discovered counter has
\* been advanced by the number of packages it returned, also when it failed; at the
\* end of the run the counter is the sum of the package counts of all catalogers.
C8_CounterCountsEveryCataloger ==
    /\ packagesDiscovered.N = ReturnedPackagesCount(i - 1)
    /\ Returned => packagesDiscovered.N = ReturnedPackagesCount(Len(catalogers))

\* C8, amended: after a cataloger was invoked the packages-discovered counter has
\* been advanced by the number of packages it returned when the invocation succeeded
\* and is unchanged when it failed; at the end of the run the counter is the sum of
\* the package counts of the catalogers that succeeded.
C8_CounterCountsSucceededCatalogers ==
    /\ packagesDiscovered.N = SucceededPackages(i - 1)
    /\ Returned => packagesDiscovered.N = SucceededPackages(Len(catalogers))

\* a cataloger succeeded with a package, another failed and returned a package too
C8_Witness ==
    /\ Returned
    /\ \E k \in 1..Len(catalogers) : Failed(k) /\ catalogers[k].packages # <<>>
    /\ \E k \in 1..Len(catalogers) : ~Failed(k) /\ catalogers[k].packages # <<>>
    /\ packagesDiscovered.N = 1

\* C9: no step of a run decreases the packages-discovered counter, and a failing run
\* does not roll it back: when Catalog returns an error, the counter is still at
\* least the package count of every cataloger that succeeded.
C9_CounterNeverDecreases ==
    [][/\ packagesDiscovered'.N >= packagesDiscovered.N
       /\ (pc' = "done" /\ ret'.err # <<>>) =>
             \A k \in 1..Len(catalogers) :
                 ~Failed(k) => packagesDiscovered'.N >= Len(catalogers[k].packages)]_vars

\* cataloger 1 succeeded with packages, cataloger 2 failed, Catalog returned nil
\* results and the counter still holds the packages of cataloger 1
C9_Witness ==
    /\ Returned
    /\ Len(catalogers) = 2
    /\ ~Failed(1) /\ Failed(2)
    /\ Len(catalogers[1].packages) > 0
    /\ ret.catalog = <<>> /\ ret.relationships = <<>> /\ ret.err # <<>>
    /\ packagesDiscovered.N >= Len(catalogers[1].packages)

\* C10: the two progress streams are completed together, and only by a run that
\* succeeds: in a run with a failing cataloger neither is ever completed, and when a
\* run without a failing cataloger has returned both are completed.
C10_CompletedIffSuccess ==
    /\ filesProcessed.completed <=> packagesDiscovered.completed
    /\ packagesDiscovered.completed => (Returned /\ ret.err = <<>> /\ ~AnyFailed)
    /\ (Returned /\ ~AnyFailed) =>
          (filesProcessed.completed /\ packagesDiscovered.completed)

\* a run of two succeeding catalogers has returned and both streams are completed
C10_Witness ==
    /\ Returned /\ ~AnyFailed
    /\ Len(catalogers) = 2
    /\ ret.catalog # <<>>
    /\ filesProcessed.completed /\ packagesDiscovered.completed

\* the positions of the failing catalogers, in list order
FailingCatalogers ==
    SelectSeq([k \in 1..Len(catalogers) |-> k], LAMBDA k : Failed(k))

\* the error of cataloger c wrapped with the name of c
WrappedWithName(c) == c.Name \o ": " \o c.err[1]

\* C11: the error Catalog returns holds one entry per failing cataloger, in
\* invocation order, each the cataloger's error wrapped with the cataloger's name;
\* it is nil when no cataloger failed.
C11_ErrorsWrappedWithCatalogerName ==
    Returned =>
        ret.err = [n \in 1..Len(FailingCatalogers) |->
                      WrappedWithName(catalogers[FailingCatalogers[n]])]

\* the packages the succeeded catalogers among the first n returned, in order
RECURSIVE DiscoveredPackages(_)
DiscoveredPackages(n) ==
    IF n = 0 THEN <<>>
    ELSE DiscoveredPackages(n - 1) \o
         (IF Failed(n) THEN <<>> ELSE catalogers[n].packages)

\* C13: the package Catalog works with differs from the package the cataloger
\* returned in CPEs and PURL only: name, version, type and metadata are unchanged, and
\* the identity of the From of its ownership edges and of its catalog entry is the
\* identity of the returned package.
C13_OnlyIdentifiersChange ==
    LET d == DiscoveredPackages(i - 1) IN
    /\ Len(owning) = Len(d)
    /\ \A n \in 1..Len(owning) :
          LET p0 == d[n]
              p == owning[n].p
          IN /\ p.Name = p0.Name /\ p.Version = p0.Version /\ p.Type = p0.Type
             /\ p.Metadata = p0.Metadata
             /\ [p EXCEPT !.CPEs = p0.CPEs, !.PURL = p0.PURL] = p0
             /\ \A r \in Range(owning[n].result.relationships) : ID(r.From) = ID(p0)
             /\ \E k \in 1..Len(catalog[1]) : ID(catalog[1][k]) = ID(p0)

\* a package got new CPEs and a new PURL, ownership edges, and is in the returned catalog
C13_Witness ==
    /\ Returned /\ ~AnyFailed
    /\ \E n \in 1..Len(owning) :
          /\ owning[n].p.CPEs # DiscoveredPackages(i - 1)[n].CPEs
          /\ owning[n].p.PURL # DiscoveredPackages(i - 1)[n].PURL
          /\ owning[n].result.relationships # <<>>
          /\ \E k \in 1..Len(ret.catalog[1]) : ret.catalog[1][k] = owning[n].p

\* C15: a call of packageFileOwnershipRelationships for a package whose metadata is
\* no FileOwner returns no relationship and no error and makes no resolver lookup.
C15_NoFileOwnerNoLookup ==
    \A n \in 1..Len(owning) :
        ~owning[n].p.Metadata.FileOwner =>
            /\ owning[n].result.relationships = <<>>
            /\ owning[n].result.err = <<>>
            /\ owning[n].result.lookups = <<>>

\* a call for a package without the capability, on a resolver that fails every lookup
C15_Witness ==
    /\ \A path \in Paths : resolver[path].err
    /\ \E n \in 1..Len(owning) :
          /\ ~owning[n].p.Metadata.FileOwner
          /\ owning[n].result = [relationships |-> <<>>, err |-> <<>>, lookups |-> <<>>]

\* the concatenation f[1] \o ... \o f[n]
RECURSIVE Flatten(_, _)
Flatten(f, n) == IF n = 0 THEN <<>> ELSE Flatten(f, n - 1) \o f[n]

\* the ownership edges of one discovered package: by declared path, then by location
OwnershipEdgesInOrder(p0) ==
    LET p == withIdentifiers(p0, release)
        files == p.Metadata.OwnedFiles
    IN IF ~p.Metadata.FileOwner \/ ~AllLookupsSucceed(p) THEN <<>>
       ELSE Flatten([f \in 1..Len(files) |->
                        [l \in 1..Len(resolver[files[f]].locations) |->
                            [From |-> p,
                             To |-> resolver[files[f]].locations[l].Coordinates,
                             Type |-> "contains"]]],
                    Len(files))

\* the edges of one cataloger: the ownership edges of its packages, then what it reported
CatalogerEdgesInOrder(k) ==
    Flatten([j \in 1..Len(catalogers[k].packages) |->
                OwnershipEdgesInOrder(catalogers[k].packages[j])],
            Len(catalogers[k].packages))
    \o catalogers[k].relationships

\* C20: the relationship list a successful run returns is, for each cataloger in
\* invocation order, the ownership edges of its packages (by package, declared path
\* and location) and then the relationships it reported, followed by the edges of
\* pkg.NewRelationships.
C20_RelationshipOrder ==
    (Returned /\ ~AnyFailed) =>
        ret.relationships =
            Flatten([k \in 1..Len(catalogers) |-> CatalogerEdgesInOrder(k)], Len(catalogers))
            \o NewRelationships(synthesized[1])

\* one cataloger returned an owning package and a relationship, the other a second
\* package: two ownership edges, the reported edge, then the edge of NewRelationships
C20_Witness ==
    /\ Returned /\ ~AnyFailed
    /\ Len(catalogers) = 2
    /\ catalogers[1].relationships # <<>>
    /\ Len(ret.relationships) = 4
    /\ ret.relationships[1].Type = "contains"
    /\ ret.relationships[2].Type = "contains"
    /\ ret.relationships[3].Type = "dependency-of"
    /\ ret.relationships[4].Type = "ownership-by-file-overlap"

\* the identities in a returned catalog (none when the catalog is nil)
ReturnedIdentities(rt) ==
    IF rt.catalog = <<>> THEN {}
    ELSE {ID(rt.catalog[1][k]) : k \in 1..Len(rt.catalog[1])}

EventsOf(kind) == SelectSeq(events, LAMBDA e : e[1] = kind)

\* the position of the first event of a kind in the log (0: none)
FirstEvent(kind) ==
    IF \A n \in 1..Len(events) : events[n][1] # kind THEN 0
    ELSE CHOOSE n \in 1..Len(events) :
             events[n][1] = kind /\ \A m \in 1..(n - 1) : events[m][1] # kind

\* source.New is reached and returns a source
SourceCreated == tasksResult.err = <<>> /\ sourceResult.err = <<>>

\* the position of the first failing task (0: none)
FirstFailingTask ==
    IF \A k \in 1..Len(tasksResult.tasks) : tasksResult.tasks[k] = <<>> THEN 0
    ELSE CHOOSE k \in 1..Len(tasksResult.tasks) :
             /\ tasksResult.tasks[k] # <<>>
             /\ \A j \in 1..(k - 1) : tasksResult.tasks[j] = <<>>

\* the error of the first step of the run that fails (<<>>: no step fails)
WorkerError ==
    IF tasksResult.err # <<>> THEN tasksResult.err
    ELSE IF sourceResult.err # <<>> THEN sourceResult.err
    ELSE IF sourceResult.scheme # "ImageScheme" THEN <<"eScheme">>
    ELSE IF FirstFailingTask # 0 THEN tasksResult.tasks[FirstFailingTask]
    ELSE <<>>

AllTaskEvents ==
    [k \in 1..Len(tasksResult.tasks) |-> <<"task", TaskNames[k]>>]

\* C12: the PresenterReady event is published at most once, and only after task
\* loading, source creation and the scheme check succeeded and every task has run and
\* succeeded; in a run in which one of these steps fails no event is published and
\* the failure is sent as the one error on the channel errs.
C12_PublishedOnlyAfterSuccess ==
    /\ Len(EventsOf("publish")) <= 1
    /\ EventsOf("publish") # <<>> =>
          /\ WorkerError = <<>>
          /\ tasksResult.err = <<>> /\ sourceResult.err = <<>>
          /\ sourceResult.scheme = "ImageScheme"
          /\ \A k \in 1..Len(tasksResult.tasks) : tasksResult.tasks[k] = <<>>
          /\ SubSeq(events, 1, FirstEvent("publish") - 1) = AllTaskEvents
          /\ EventsOf("send") = <<>> /\ errsChan.sending = <<>>
    /\ WorkerError # <<>> =>
          /\ EventsOf("publish") = <<>>
          /\ wpc = "send" => errsChan.sending = WorkerError
          /\ wpc \in {"return", "exit"} => EventsOf("send") = <<<<"send", WorkerError[1]>>>>

\* two tasks ran and succeeded, the event was published and the goroutine has ended
C12_Witness ==
    /\ wpc = "exit"
    /\ Len(tasksResult.tasks) = 2
    /\ events = <<<<"task", "task1">>, <<"task", "task2">>, <<"publish", "PresenterReady">>,
                 <<"cleanup", "src">>, <<"close", "errs">>>>

\* C16: when the scheme of the created source is not the image scheme, an error is
\* sent on the channel errs, no task is run and no PresenterReady event is published.
C16_OnlyImageSources ==
    (SourceCreated /\ sourceResult.scheme # "ImageScheme") =>
        /\ EventsOf("task") = <<>>
        /\ EventsOf("publish") = <<>>
        /\ wpc \notin {"tasks"}
        /\ wpc = "send" => errsChan.sending = <<"eScheme">>
        /\ wpc \in {"return", "exit"} => EventsOf("send") = <<<<"send", "eScheme">>>>

\* a directory source and two tasks: the error was sent and nothing else happened
C16_Witness ==
    /\ wpc = "exit"
    /\ sourceResult.scheme = "DirectoryScheme"
    /\ Len(tasksResult.tasks) = 2
    /\ events = <<<<"send", "eScheme">>, <<"cleanup", "src">>, <<"close", "errs">>>>

\* C17: at most one error is sent on the channel errs, the channel is closed at most
\* once and nothing is sent or pending once it is closed; with a consumer that keeps
\* receiving, the goroutine ends and the channel is closed.
C17_OneErrorThenClosed ==
    /\ [](/\ Len(EventsOf("send")) + Len(errsChan.sending) <= 1
          /\ Len(EventsOf("close")) <= 1
          /\ errsChan.closed <=> Len(EventsOf("close")) = 1
          /\ errsChan.closed =>
                /\ errsChan.sending = <<>>
                /\ events[Len(events)] = <<"close", "errs">>
                /\ wpc = "exit")
    /\ <>(wpc = "exit" /\ errsChan.closed)

\* a task failed: its error was sent, then the channel was closed
C17_Witness ==
    /\ wpc = "exit"
    /\ errsChan.closed
    /\ Len(EventsOf("send")) = 1
    /\ FirstEvent("send") < FirstEvent("close")

\* C18: the tasks run in list order and the loop stops at the first failure: the
\* tasks run so far are the first ones of the list, all but the last of them
\* succeeded, and when the last one failed its error is the one sent on errs.
C18_TasksStopAtFirstFailure ==
    LET n == Len(EventsOf("task")) IN
    /\ n <= Len(tasksResult.tasks)
    /\ EventsOf("task") = SubSeq(AllTaskEvents, 1, n)
    /\ \A k \in 1..(n - 1) : tasksResult.tasks[k] = <<>>
    /\ (n > 0 /\ tasksResult.tasks[n] # <<>>) =>
          /\ n = FirstFailingTask
          /\ wpc \in {"send", "return", "exit"}
          /\ wpc = "send" => errsChan.sending = tasksResult.tasks[n]
          /\ wpc \in {"return", "exit"} =>
                EventsOf("send") = <<<<"send", tasksResult.tasks[n][1]>>>>
    /\ (wpc = "exit" /\ SourceCreated /\ sourceResult.scheme = "ImageScheme") =>
          n = IF FirstFailingTask = 0 THEN Len(tasksResult.tasks) ELSE FirstFailingTask

\* the first of two tasks failed: it alone ran and its error was sent
C18_Witness ==
    /\ wpc = "exit"
    /\ Len(tasksResult.tasks) = 2
    /\ tasksResult.tasks[1] # <<>>
    /\ EventsOf("task") = <<<<"task", "task1">>>>
    /\ EventsOf("send") = <<<<"send", "eTask1">>>>

\* C19: the cleanup of the source runs at most once, only when source.New returned a
\* source, after the error was sent or the event published and before the channel is
\* closed; when the goroutine has ended it has run exactly once if source.New
\* returned a source and never otherwise.
C19_CleanupOnceBeforeClose ==
    /\ Len(EventsOf("cleanup")) <= 1
    /\ EventsOf("cleanup") # <<>> =>
          /\ SourceCreated
          /\ \/ 0 < FirstEvent("send") /\ FirstEvent("send") < FirstEvent("cleanup")
             \/ 0 < FirstEvent("publish") /\ FirstEvent("publish") < FirstEvent("cleanup")
    /\ (errsChan.closed /\ SourceCreated) =>
          0 < FirstEvent("cleanup") /\ FirstEvent("cleanup") < FirstEvent("close")
    /\ wpc = "exit" => (Len(EventsOf("cleanup")) = 1 <=> SourceCreated)

\* the scheme check failed: the error was sent, then the cleanup ran, then the close
C19_Witness ==
    /\ wpc = "exit"
    /\ SourceCreated /\ sourceResult.scheme # "ImageScheme"
    /\ events = <<<<"send", "eScheme">>, <<"cleanup", "src">>, <<"close", "errs">>>>
    /\ errsChan.closed
====
